---- MODULE Spec2Model ----
(***************************************************************************)
(* Model of the API tester (api_tester.py), the structured logger           *)
(* (logger.py) and the method validation (utils.py) of curl_observer.       *)
(*                                                                          *)
(* asyncio runs one coroutine at a time: a coroutine is only suspended at   *)
(* an await that really waits (the HTTP request, the retry sleep, gather).  *)
(* Every action below is the code between two such suspension points.       *)
(***************************************************************************)
EXTENDS Integers, Sequences, FiniteSets, TLC

\* ---------------------------------------------------------------- bounds
\* test_endpoint invocations the direct and the retry calls of one session may
\* start, all calls together
MaxInvocations == 3
\* endpoints the batches of one session may be given, all batches together
MaxBatch == 2
\* finalize_session calls one session may make
MaxFinalize == 2
\* direct log_event calls (browser/phase events) one session may make
MaxDirectLogs == 1
\* console calls on which a custom handler raises, in one session
MaxSinkFaults == 1

\* ---------------------------------------------------------------- values
\* Python's None, for a field that otherwise holds a string
NULL == "null"
\* Python's None, for a field that otherwise holds a number n, written <<n>>,
\* or a string built from parts, written as the tuple of its parts
None == << >>
Some(n) == << n >>
\* round(response_time, 2): a measured, non-null number of milliseconds
ELAPSED == "elapsed_ms"
\* the unrounded measurement the api event is given
RAW_ELAPSED == "elapsed_ms_raw"

UrlNames == << "u1", "u2", "u3", "u4" >>
\* the url a direct or a retry call is given
Urls == {"u1"}
\* the endpoint lists a batch is given: n different urls, or n times the same
EndpointLists ==
    { [i \in 1..n |-> UrlNames[i]] : n \in 0..MaxBatch }
      \cup { [i \in 1..n |-> "u1"] : n \in 2..MaxBatch }

\* what the awaited client.request(...) can end in: a response or a raised fault
\* (body: JSON that parses, a JSON content type on a body that does not parse, text)
Responses ==
    { [kind |-> "response", status |-> 200, body |-> "json"],
      [kind |-> "response", status |-> 301, body |-> "text"],
      [kind |-> "response", status |-> 404, body |-> "badjson"],
      [kind |-> "response", status |-> 500, body |-> "text"] }
Faults ==
    { [kind |-> "timeout"], [kind |-> "connect"], [kind |-> "other"] }
Outcomes == Responses \cup Faults

\* ---------------------------------------------------------------- utils.py
\* str.upper(), character by character
UpperChar(c) ==
    CASE c = "g" -> "G" [] c = "e" -> "E" [] c = "t" -> "T" [] c = "p" -> "P"
      [] c = "o" -> "O" [] c = "s" -> "S" [] c = "u" -> "U" [] c = "d" -> "D"
      [] c = "l" -> "L" [] c = "a" -> "A" [] c = "c" -> "C" [] c = "h" -> "H"
      [] c = "n" -> "N" [] c = "i" -> "I" [] c = "r" -> "R"
      [] OTHER -> c

\* the method used as given, its upper() left out
UpperLeftOut(s) == s

Upper(s) == [i \in 1..Len(s) |-> UpperChar(s[i])]

valid_methods ==
    { <<"G","E","T">>, <<"P","O","S","T">>, <<"P","U","T">>,
      <<"D","E","L","E","T","E">>, <<"P","A","T","C","H">>,
      <<"H","E","A","D">>, <<"O","P","T","I","O","N","S">> }

is_valid_http_method(method) == Upper(method) \in valid_methods

\* the method strings a session is run with
MethodInputs ==
    { <<"G","E","T">>, <<"p","O","s","t">>,
      <<>>, <<"G","E","T","S">>, <<"g","e","t"," ">>, <<"T","R","A","C","E">>,
      <<"g","e">> }

\* ---------------------------------------------------------------- state
VARIABLES
    verbose,      \* StructuredLogger.verbose
    handlers,     \* handlers of the process-wide "play_curl" console logger:
                  \* "stream" (the StreamHandler __init__ installs) or "custom"
    log_file,     \* StructuredLogger.log_file is configured
    events,       \* session_data["events"]
    clock,        \* datetime.now(): the next timestamp it returns
    session_end,  \* session_data["session_end"], NULL while absent
    log_doc,      \* the document in the log file, NULL while unwritten
    writes,       \* how often the log file has been written
    client,       \* ApiTester.client: "none", "open" or "closed"
    method,       \* the method string the session's calls are given
    mode,         \* what the session drives: the logger alone, direct calls,
                  \* batches, or retry calls (cli.py runs batches or retry calls)
    call,         \* the running top-level call of the tester, or idle
    tasks,        \* the test_endpoint coroutines of the running call
    ret,          \* how the last top-level call ended
    requests,     \* HTTP requests issued to the target so far
    sleeps,       \* asyncio.sleep(retry_delay) calls so far
    invocations,  \* test_endpoint invocations so far
    finalized,    \* finalize_session calls so far
    directLogs,   \* direct log_event calls so far
    sinkFaults,   \* console calls on which the handler raised so far
    session       \* the `async with ApiTester(...)` block: "new" (not entered),
                  \* "entered", "exited", or "interrupted" (left by cancellation)

vars == << verbose, handlers, log_file, events, clock, session_end, log_doc,
           writes, client, method, mode, call, tasks, ret, requests, sleeps,
           invocations, finalized, directLogs, sinkFaults, session >>

loggerVars == << verbose, handlers, log_file, mode >>

\* ---------------------------------------------------------------- logger.py
\* The log as one value threaded through consecutive logger calls:
\* raised is set when a call raised, and then the calls after it never run.
TheLog == [events |-> events, clock |-> clock, raised |-> FALSE, faults |-> sinkFaults]

\* the console branch of log_event is taken
Mirrored(event_type) == verbose \/ event_type \in {"error", "success", "warning"}

\* json.dumps(data) succeeds: the data hold no object json cannot encode
Serializable(data) == ~ ("details" \in DOMAIN data /\ data.details = "object")

\* log_event had it inserted the event at the front of the list
log_event_insert_front(L, event_type, data, sinkRaises) ==
    IF L.raised THEN L
    ELSE [events |-> << [timestamp |-> L.clock, type |-> event_type, data |-> data] >>
                     \o L.events,
          clock  |-> L.clock + 1,
          raised |-> Mirrored(event_type) /\ (sinkRaises \/ ~ Serializable(data)),
          faults |-> IF Mirrored(event_type) /\ sinkRaises
                     THEN L.faults + 1 ELSE L.faults]

\* log_event: append, then mirror to the console, where json.dumps(data) is
\* evaluated.  sinkRaises: the console logger's handler raises on this record.
log_event(L, event_type, data, sinkRaises) ==
    IF L.raised THEN L
    ELSE [events |-> Append(L.events,
                            [timestamp |-> L.clock, type |-> event_type, data |-> data]),
          clock  |-> L.clock + 1,
          raised |-> Mirrored(event_type) /\ (sinkRaises \/ ~ Serializable(data)),
          faults |-> IF Mirrored(event_type) /\ sinkRaises
                     THEN L.faults + 1 ELSE L.faults]

log_api_event(L, m, url, status_code, response_time, error, sinkRaises) ==
    log_event(L, "api",
              [method |-> m, url |-> url, status_code |-> status_code,
               response_time_ms |-> response_time, error |-> error],
              sinkRaises)

\* "no exception": the error argument left at None
NoExc == [type |-> "None", msg |-> ""]

log_error(L, message, error, sinkRaises) ==
    log_event(L, "error",
              IF error = NoExc
              THEN [message |-> message, level |-> "ERROR"]
              ELSE [message |-> message, level |-> "ERROR",
                    error_type |-> error.type, error_details |-> error.msg],
              sinkRaises)

log_success(L, message, sinkRaises) ==
    log_event(L, "success", [message |-> message, level |-> "INFO"], sinkRaises)

log_warning(L, message, sinkRaises) ==
    log_event(L, "warning", [message |-> message, level |-> "WARNING"], sinkRaises)

\* the exception a raising console handler lets through log_event
SinkError == [type |-> "SinkError", msg |-> "console handler raised"]

\* The console calls of one test_endpoint run that may raise: the api and the
\* classification call of the try block, the api and the error call of the
\* except block.  The StreamHandler never raises (Handler.handleError).
Sites == {"api", "class", "exc_api", "exc_err"}
SinkPlans ==
    IF handlers = "custom"
    THEN {F \in SUBSET Sites : Cardinality(F) <= MaxSinkFaults - sinkFaults}
    ELSE {{}}
\* one console call raises or not
SinkChoices ==
    IF handlers = "custom" /\ sinkFaults < MaxSinkFaults THEN BOOLEAN ELSE {FALSE}

\* the logger's state after the calls that made L
SetLog(L) ==
    /\ L.faults <= MaxSinkFaults
    /\ events' = L.events
    /\ clock' = L.clock
    /\ sinkFaults' = L.faults

KeepLog == UNCHANGED << events, clock, sinkFaults >>

\* ---------------------------------------------------------------- api_tester.py
\* the exception objects of the program
RuntimeErr == [type |-> "RuntimeError", msg |-> "ApiTester must be used as async context manager"]
ValueErr(M) == [type |-> "ValueError", msg |-> <<"Invalid HTTP method: ", M>>]
FaultExc(kind) ==
    CASE kind = "timeout" -> [type |-> "TimeoutException", msg |-> "timed out"]
      [] kind = "connect" -> [type |-> "ConnectError", msg |-> "connection refused"]
      [] kind = "closed"  -> [type |-> "RuntimeError", msg |-> "client has been closed"]
      [] OTHER            -> [type |-> "ReadError", msg |-> "read failed"]

\* the result dict had it started from success = True
BaseResultSuccessFirst(url, M) ==
    [url |-> url, method |-> M, success |-> TRUE, status_code |-> None,
     response_time_ms |-> NULL, response_size_bytes |-> NULL, error |-> None,
     headers |-> "empty", response_preview |-> NULL]

\* the result dict test_endpoint starts from
BaseResult(url, M) ==
    [url |-> url, method |-> M, success |-> FALSE, status_code |-> None,
     response_time_ms |-> NULL, response_size_bytes |-> NULL, error |-> None,
     headers |-> "empty", response_preview |-> NULL]

\* The preview: pretty-printed JSON, the text, or, when response.json() raises
\* inside the inner try, the string of the raw bytes; each cut to 500 characters.
Preview(body) ==
    CASE body = "json"    -> "json.dumps(response.json())[:500]"
      [] body = "badjson" -> "str(response.content)[:500]"
      [] OTHER            -> "response.text[:500]"

\* the classification had it taken every status below 400 for a success
ClassifyBelow400(L, M, url, status, sinkRaises) ==
    IF status < 400
    THEN log_success(L, <<M, url, "->", status>>, sinkRaises)
    ELSE IF status < 500
    THEN log_warning(L, <<M, url, "->", status, "Client Error">>, sinkRaises)
    ELSE log_error(L, <<M, url, "->", status, "Server Error">>, NoExc, sinkRaises)

\* the classification call after the api event of a response
Classify(L, M, url, status, sinkRaises) ==
    IF 200 <= status /\ status < 300
    THEN log_success(L, <<M, url, "->", status>>, sinkRaises)
    ELSE IF 400 <= status /\ status < 500
    THEN log_warning(L, <<M, url, "->", status, "Client Error">>, sinkRaises)
    ELSE IF status >= 500
    THEN log_error(L, <<M, url, "->", status, "Server Error">>, NoExc, sinkRaises)
    ELSE L

\* the except blocks had they logged the api event alone
ExceptBlockApiOnly(L, result, M, url, kind, e, F) ==
    LET error_msg == CASE kind = "timeout" -> <<"Request timeout after", "timeout_s">>
                       [] kind = "connect" -> <<"Connection error:", e.msg>>
                       [] OTHER            -> <<"Unexpected error:", e.msg>>
        r  == [result EXCEPT !.error = error_msg, !.response_time_ms = ELAPSED]
        L1 == log_api_event([L EXCEPT !.raised = FALSE], M, url, None, RAW_ELAPSED,
                            error_msg, "exc_api" \in F)
    IN  [log |-> L1, result |-> r, raised |-> L1.raised,
         exc |-> IF L1.raised THEN SinkError ELSE NoExc]

\* The three except blocks: which one runs follows from the exception's kind.
\* An exception raised inside the block (by a logger call) leaves test_endpoint.
ExceptBlock(L, result, M, url, kind, e, F) ==
    LET error_msg == CASE kind = "timeout" -> <<"Request timeout after", "timeout_s">>
                       [] kind = "connect" -> <<"Connection error:", e.msg>>
                       [] OTHER            -> <<"Unexpected error:", e.msg>>
        label     == CASE kind = "timeout" -> "Timeout"
                       [] kind = "connect" -> "Connection failed"
                       [] OTHER            -> "Unexpected error"
        r  == [result EXCEPT !.error = error_msg, !.response_time_ms = ELAPSED]
        L1 == log_api_event([L EXCEPT !.raised = FALSE], M, url, None, RAW_ELAPSED,
                            error_msg, "exc_api" \in F)
        L2 == log_error(L1, <<M, url, "->", label>>,
                        IF kind = "timeout" THEN NoExc ELSE e, "exc_err" \in F)
    IN  [log |-> L2, result |-> r, raised |-> L2.raised,
         exc |-> IF L2.raised THEN SinkError ELSE NoExc]

\* test_endpoint had it logged the classification before the api event
EndpointBodyClassifiesFirst(L, url, M, outcome, F) ==
    IF outcome.kind = "response"
    THEN LET r1 == [BaseResult(url, M) EXCEPT
                      !.success = TRUE,
                      !.status_code = Some(outcome.status),
                      !.response_time_ms = ELAPSED,
                      !.response_size_bytes = "len(content)",
                      !.headers = "response_headers",
                      !.response_preview = Preview(outcome.body)]
             L1 == Classify(L, M, url, outcome.status, "class" \in F)
             L2 == log_api_event(L1, M, url, Some(outcome.status), RAW_ELAPSED, None,
                                 "api" \in F)
         IN  IF L2.raised
             THEN ExceptBlock(L2, r1, M, url, "other", SinkError, F)
             ELSE [log |-> L2, result |-> r1, raised |-> FALSE, exc |-> NoExc]
    ELSE ExceptBlock(L, BaseResult(url, M), M, url, outcome.kind,
                     FaultExc(outcome.kind), F)

\* test_endpoint from the end of the awaited request to its return or raise.
\* outcome: what the request ended in.  F: the console calls that raise.
EndpointBody(L, url, M, outcome, F) ==
    IF outcome.kind = "response"
    THEN LET r1 == [BaseResult(url, M) EXCEPT
                      !.success = TRUE,
                      !.status_code = Some(outcome.status),
                      !.response_time_ms = ELAPSED,
                      !.response_size_bytes = "len(content)",
                      !.headers = "response_headers",
                      !.response_preview = Preview(outcome.body)]
             L1 == log_api_event(L, M, url, Some(outcome.status), RAW_ELAPSED, None,
                                 "api" \in F)
             L2 == Classify(L1, M, url, outcome.status, "class" \in F)
         IN  IF L2.raised
             THEN ExceptBlock(L2, r1, M, url, "other", SinkError, F)
             ELSE [log |-> L2, result |-> r1, raised |-> FALSE, exc |-> NoExc]
    ELSE ExceptBlock(L, BaseResult(url, M), M, url, outcome.kind,
                     FaultExc(outcome.kind), F)

NoResult == [url |-> NULL]
NoOutcome == [kind |-> "none"]

\* a test_endpoint coroutine that has not run yet
NewTask(url) ==
    [url |-> url, st |-> "new", result |-> NoResult, exc |-> NoExc,
     outcome |-> NoOutcome]

Finished(t) == t.st \in {"returned", "raised"}

\* the task after EndpointBody ended as b
TaskAfter(t, outcome, b) ==
    [t EXCEPT !.st = IF b.raised THEN "raised" ELSE "returned",
              !.result = IF b.raised THEN NoResult ELSE b.result,
              !.exc = b.exc,
              !.outcome = outcome]

Idle == [op |-> "idle"]
NoRet == [op |-> "none", kind |-> "none"]

\* __aenter__: a new client (a tester is entered once)
Enter ==
    /\ call.op = "idle"
    /\ mode # "logger"
    /\ session = "new"
    /\ client = "none"
    /\ client' = "open"
    /\ session' = "entered"
    /\ UNCHANGED << loggerVars, events, clock, sinkFaults, session_end, log_doc, writes, method,
                    call, tasks, ret, requests, sleeps, invocations, finalized,
                    directLogs >>

\* __aexit__ had it closed the client only when no exception leaves the block
aexitOnSuccessOnly(c, exc) == IF c # "none" /\ ~ exc THEN "closed" ELSE c

\* __aexit__(exc_type, exc_val, exc_tb): the client, when there is one, is
\* closed, whether or not an exception is leaving the block
aexit(c, exc) == IF c # "none" THEN "closed" ELSE c

\* The block is left: normally, or by the exception the last call raised.
Exit ==
    /\ call.op = "idle"
    /\ session = "entered"
    /\ \E exc \in {FALSE, ret.kind = "raise"} : client' = aexit(client, exc)
    /\ session' = "exited"
    /\ UNCHANGED << loggerVars, events, clock, sinkFaults, session_end, log_doc, writes, method,
                    call, tasks, ret, requests, sleeps, invocations, finalized,
                    directLogs >>

\* what the cancellation of the main task raises at the await it is suspended in
CancelledErr == [type |-> "CancelledError", msg |-> ""]

\* A user interrupt while a call is suspended at an await (the request of a
\* coroutine, the retry sleep): the main task is cancelled, gather cancels its
\* coroutines, CancelledError passes `except Exception` and leaves the block
\* through __aexit__.
Interrupt ==
    /\ session = "entered"
    /\ call.op # "idle"
    /\ \/ \E i \in DOMAIN tasks : tasks[i].st = "awaiting"
       \/ call.op = "retry" /\ call.phase = "sleeping"
    /\ tasks' = [i \in DOMAIN tasks |->
                   IF Finished(tasks[i]) THEN tasks[i]
                   ELSE [tasks[i] EXCEPT !.st = "cancelled", !.exc = CancelledErr]]
    /\ ret' = [op |-> "interrupt", of |-> call.op, mark |-> call.mark,
               kind |-> "raise", value |-> CancelledErr]
    /\ call' = Idle
    /\ client' = aexit(client, TRUE)
    /\ session' = "interrupted"
    /\ UNCHANGED << loggerVars, events, clock, sinkFaults, session_end, log_doc, writes, method,
                    requests, sleeps, invocations, finalized, directLogs >>

\* test_endpoint from its first line to the await of the request: the two
\* checks, and the request is issued.  A closed client raises from request()
\* without waiting, so the rest of the body runs in the same step.
\* The event loop starts the coroutines of one gather in the order they were made.
TaskStart(i) ==
    /\ call.op # "idle"
    /\ i \in 1..Len(tasks)
    /\ tasks[i].st = "new"
    /\ \A j \in 1..(i - 1) : tasks[j].st # "new"
    /\ \E F \in SinkPlans :
         LET M == Upper(method)
             b == EndpointBody(TheLog, tasks[i].url, M, [kind |-> "closed"], F)
         IN  IF client = "none"
             THEN /\ tasks' = [tasks EXCEPT ![i].st = "raised", ![i].exc = RuntimeErr]
                  /\ KeepLog
                  /\ UNCHANGED requests
             ELSE IF ~ is_valid_http_method(M)
             THEN /\ tasks' = [tasks EXCEPT ![i].st = "raised", ![i].exc = ValueErr(M)]
                  /\ KeepLog
                  /\ UNCHANGED requests
             ELSE IF client = "closed"
             THEN /\ tasks' = [tasks EXCEPT ![i] = TaskAfter(@, [kind |-> "closed"], b)]
                  /\ SetLog(b.log)
                  /\ UNCHANGED requests
             ELSE /\ tasks' = [tasks EXCEPT ![i].st = "awaiting"]
                  /\ requests' = requests + 1
                  /\ KeepLog
    /\ UNCHANGED << loggerVars, session, session_end, log_doc, writes, client, method, call,
                    ret, sleeps, invocations, finalized, directLogs >>

\* the awaited request ends and test_endpoint runs to its return or raise
TaskComplete(i) ==
    /\ i \in 1..Len(tasks)
    /\ tasks[i].st = "awaiting"
    /\ \E outcome \in Outcomes, F \in SinkPlans :
         LET b == EndpointBody(TheLog, tasks[i].url, Upper(method), outcome, F)
         IN  /\ tasks' = [tasks EXCEPT ![i] = TaskAfter(@, outcome, b)]
             /\ SetLog(b.log)
    /\ UNCHANGED << loggerVars, session, session_end, log_doc, writes, client, method, call,
                    ret, requests, sleeps, invocations, finalized, directLogs >>

\* a direct call of test_endpoint(url, method)
StartSingle(url) ==
    /\ call.op = "idle"
    /\ mode = "single"
    /\ session # "interrupted"
    /\ invocations < MaxInvocations
    /\ call' = [op |-> "single", url |-> url, mark |-> Len(events), req0 |-> requests]
    /\ tasks' = << NewTask(url) >>
    /\ ret' = NoRet
    /\ invocations' = invocations + 1
    /\ UNCHANGED << loggerVars, session, events, clock, sinkFaults, session_end, log_doc, writes, client,
                    method, requests, sleeps, finalized, directLogs >>

\* the direct call returns what test_endpoint returned, or raises what it raised
ReturnSingle ==
    /\ call.op = "single"
    /\ Finished(tasks[1])
    /\ ret' = [op |-> "single", mark |-> call.mark, req0 |-> call.req0,
               url |-> call.url,
               kind |-> IF tasks[1].st = "raised" THEN "raise" ELSE "return",
               value |-> IF tasks[1].st = "raised" THEN tasks[1].exc ELSE tasks[1].result]
    /\ call' = Idle
    /\ UNCHANGED << loggerVars, session, events, clock, sinkFaults, session_end, log_doc, writes, client,
                    method, tasks, requests, sleeps, invocations, finalized, directLogs >>

\* ---- test_multiple_endpoints
\* f"{(success_count / n) * 100:.1f}%": the percentage rounded to one decimal
\* (a tie goes to the even digit), written as its digits
SuccessRate(success_count, n) ==
    LET q == (1000 * success_count) \div n
        r == (1000 * success_count) % n
        tenths == IF 2 * r > n \/ (2 * r = n /\ q % 2 = 1) THEN q + 1 ELSE q
    IN  << tenths \div 10, ".", tenths % 10, "%" >>

\* the dict made for a slot whose coroutine raised
ErrorResult(url, m, e) ==
    [url |-> url, method |-> m, success |-> FALSE,
     error |-> << "Task failed: ", e.msg >>,
     status_code |-> None, response_time_ms |-> NULL]

\* the summary's test had it used the retry controller's bound of 500
CountsAsSuccessBelow500(result) == result.success /\ result.status_code[1] < 500

\* result["success"] and result.get("status_code", 0) < 400
CountsAsSuccess(result) == result.success /\ result.status_code[1] < 400

\* the loop had it put each processed result at the front of the list
RECURSIVE ProcessResultsFront(_, _, _, _, _, _)
ProcessResultsFront(i, ts, endpoints, m, k, acc) ==
    IF i > Len(ts) \/ acc.log.raised
    THEN acc
    ELSE ProcessResultsFront(i + 1, ts, endpoints, m, k,
           IF ts[i].st = "raised"
           THEN [log |-> log_error(acc.log, << "Task failed for", endpoints[i] >>,
                                   ts[i].exc, k = acc.calls + 1),
                 processed |-> << ErrorResult(endpoints[i], m, ts[i].exc) >>
                               \o acc.processed,
                 success_count |-> acc.success_count,
                 calls |-> acc.calls + 1]
           ELSE [acc EXCEPT
                   !.processed = << ts[i].result >> \o @,
                   !.success_count = IF CountsAsSuccess(ts[i].result)
                                     THEN @ + 1 ELSE @])

\* The loop over gather's results, from slot i on.  acc: the log, the processed
\* results, the success count and the console calls made so far; call k raises.
RECURSIVE ProcessResults(_, _, _, _, _, _)
ProcessResults(i, ts, endpoints, m, k, acc) ==
    IF i > Len(ts) \/ acc.log.raised
    THEN acc
    ELSE ProcessResults(i + 1, ts, endpoints, m, k,
           IF ts[i].st = "raised"
           THEN [log |-> log_error(acc.log, << "Task failed for", endpoints[i] >>,
                                   ts[i].exc, k = acc.calls + 1),
                 processed |-> Append(acc.processed,
                                      ErrorResult(endpoints[i], m, ts[i].exc)),
                 success_count |-> acc.success_count,
                 calls |-> acc.calls + 1]
           ELSE [acc EXCEPT
                   !.processed = Append(@, ts[i].result),
                   !.success_count = IF CountsAsSuccess(ts[i].result)
                                     THEN @ + 1 ELSE @])

\* the data of the api_test_batch_complete event
BatchSummary(endpoints, success_count) ==
    [total_endpoints |-> Len(endpoints),
     successful |-> success_count,
     failed |-> Len(endpoints) - success_count,
     success_rate |-> SuccessRate(success_count, Len(endpoints)),
     message |-> << "Batch test completed:", success_count, Len(endpoints) >>]

\* gather had it been called without return_exceptions: the first exception
\* of a coroutine leaves test_multiple_endpoints
BatchTailPropagates(L, ts, endpoints, m, k) ==
    LET a  == ProcessResults(1, ts, endpoints, m, k,
                [log |-> L, processed |-> << >>, success_count |-> 0, calls |-> 0])
        L2 == log_event(a.log, "api_test_batch_complete",
                        BatchSummary(endpoints, a.success_count), k = a.calls + 1)
        bad == {i \in DOMAIN ts : ts[i].st = "raised"}
    IN  IF bad # {}
        THEN [log |-> L, processed |-> << >>, raised |-> TRUE,
              exc |-> ts[CHOOSE i \in bad : \A j \in bad : i <= j].exc]
        ELSE [log |-> L2, processed |-> a.processed, raised |-> L2.raised,
              exc |-> SinkError]

\* test_multiple_endpoints after gather returned: the loop and the summary event
BatchTail(L, ts, endpoints, m, k) ==
    LET a  == ProcessResults(1, ts, endpoints, m, k,
                [log |-> L, processed |-> << >>, success_count |-> 0, calls |-> 0])
        L2 == log_event(a.log, "api_test_batch_complete",
                        BatchSummary(endpoints, a.success_count), k = a.calls + 1)
    IN  [log |-> L2, processed |-> a.processed, raised |-> L2.raised,
         exc |-> SinkError]

\* which console call of the tail raises: none (0), or the k-th
TailPlans == IF handlers = "custom" THEN 0..(Len(tasks) + 1) ELSE {0}

\* test_multiple_endpoints had it logged the start event inside the loop that
\* makes the coroutines, once per endpoint
StartBatchLogsEachEndpoint(endpoints) ==
    /\ call.op = "idle"
    /\ mode = "batch"
    /\ session # "interrupted"
    /\ invocations + Len(endpoints) <= MaxBatch
    /\ invocations' = invocations + Len(endpoints)
    /\ \E f \in SinkChoices :
         LET L0 == log_event(TheLog, "api_test_batch",
                             [endpoint_count |-> Len(endpoints), method |-> method,
                              message |-> << "Starting batch test of", Len(endpoints) >>],
                             f)
             L1 == IF Len(endpoints) > 1
                   THEN log_event(L0, "api_test_batch",
                                  [endpoint_count |-> Len(endpoints), method |-> method,
                                   message |-> << "Starting batch test of",
                                                  Len(endpoints) >>], FALSE)
                   ELSE L0
             r  == [op |-> "batch", mark |-> Len(events), req0 |-> requests,
                    endpoints |-> endpoints]
         IN  IF endpoints = << >>
             THEN /\ ret' = r @@ [kind |-> "return", value |-> << >>]
                  /\ call' = Idle
                  /\ tasks' = << >>
                  /\ KeepLog
             ELSE /\ SetLog(L1)
                  /\ IF L1.raised
                     THEN /\ ret' = r @@ [kind |-> "raise", value |-> SinkError]
                          /\ call' = Idle
                          /\ tasks' = << >>
                     ELSE /\ ret' = NoRet
                          /\ call' = r
                          /\ tasks' = [i \in 1..Len(endpoints) |-> NewTask(endpoints[i])]
    /\ UNCHANGED << loggerVars, session, session_end, log_doc, writes, client, method,
                    requests, sleeps, finalized, directLogs >>

\* test_multiple_endpoints up to the await of gather: an empty list returns at
\* once, otherwise the start event is logged and one coroutine per endpoint made
StartBatch(endpoints) ==
    /\ call.op = "idle"
    /\ mode = "batch"
    /\ session # "interrupted"
    /\ invocations + Len(endpoints) <= MaxBatch
    /\ invocations' = invocations + Len(endpoints)
    /\ \E f \in SinkChoices :
         LET L1 == log_event(TheLog, "api_test_batch",
                             [endpoint_count |-> Len(endpoints), method |-> method,
                              message |-> << "Starting batch test of", Len(endpoints) >>],
                             f)
             r  == [op |-> "batch", mark |-> Len(events), req0 |-> requests,
                    endpoints |-> endpoints]
         IN  IF endpoints = << >>
             THEN /\ ret' = r @@ [kind |-> "return", value |-> << >>]
                  /\ call' = Idle
                  /\ tasks' = << >>
                  /\ KeepLog
             ELSE /\ SetLog(L1)
                  /\ IF L1.raised
                     THEN /\ ret' = r @@ [kind |-> "raise", value |-> SinkError]
                          /\ call' = Idle
                          /\ tasks' = << >>
                     ELSE /\ ret' = NoRet
                          /\ call' = r
                          /\ tasks' = [i \in 1..Len(endpoints) |-> NewTask(endpoints[i])]
    /\ UNCHANGED << loggerVars, session, session_end, log_doc, writes, client, method,
                    requests, sleeps, finalized, directLogs >>

\* gather returns once every coroutine has returned or raised
JoinBatch ==
    /\ call.op = "batch"
    /\ \A i \in 1..Len(tasks) : Finished(tasks[i])
    /\ \E k \in TailPlans :
         LET t == BatchTail(TheLog, tasks, call.endpoints, method, k)
         IN  /\ SetLog(t.log)
             /\ ret' = call @@ [kind  |-> IF t.raised THEN "raise" ELSE "return",
                                value |-> IF t.raised THEN t.exc ELSE t.processed]
    /\ call' = Idle
    /\ UNCHANGED << loggerVars, session, session_end, log_doc, writes, client, method, tasks,
                    requests, sleeps, invocations, finalized, directLogs >>

\* ---- test_endpoint_with_retry
\* the acceptance test had it used the summary's bound of 400
AcceptedBelow400(result) == result.success /\ result.status_code[1] < 400

\* result["success"] and result.get("status_code", 0) < 500
Accepted(result) == result.success /\ result.status_code[1] < 500

\* the dict returned when no attempt was made
NoAttemptResult(url, m, max_retries) ==
    [url |-> url, method |-> m, success |-> FALSE,
     error |-> << "All retry attempts failed" >>,
     retry_attempts |-> max_retries + 1]

\* the annotation had it counted the retries, not the attempts
AnnotatedWithRetries(result, max_retries) == result @@ [retry_attempts |-> max_retries]

\* last_result["retry_attempts"] = max_retries + 1
Annotated(result, max_retries) == result @@ [retry_attempts |-> max_retries + 1]

\* the loop had it run over range(max_retries)
InRangeShort(attempt, max_retries) == attempt < max_retries

\* range(max_retries + 1) still has the value attempt
InRange(attempt, max_retries) == attempt < max_retries + 1

StartRetry(url, max_retries) ==
    /\ call.op = "idle"
    /\ mode = "retry"
    /\ session # "interrupted"
    /\ invocations + max_retries + 1 <= MaxInvocations
    /\ invocations' = invocations + max_retries + 1
    /\ call' = [op |-> "retry", mark |-> Len(events), req0 |-> requests,
                sleep0 |-> sleeps, url |-> url, max_retries |-> max_retries,
                attempt |-> 0, attempts |-> << >>, phase |-> "loop"]
    /\ tasks' = << >>
    /\ ret' = NoRet
    /\ UNCHANGED << loggerVars, session, events, clock, sinkFaults, session_end, log_doc, writes, client,
                    method, requests, sleeps, finalized, directLogs >>

\* the loop had it logged the retry event and slept before the first attempt too
RetryLoopBacksOffFirst ==
    /\ call.op = "retry"
    /\ call.phase = "loop"
    /\ \E f \in SinkChoices :
         LET n  == Len(call.attempts)
             L1 == log_event(TheLog, "api_retry",
                             [url |-> call.url, attempt |-> call.attempt + 1,
                              max_retries |-> call.max_retries,
                              message |-> << "Retrying", call.url, call.attempt + 1,
                                             call.max_retries + 1 >>], f)
             L2 == log_error(TheLog, << "All retry attempts failed for", call.url >>,
                             NoExc, f)
             r  == [c \in DOMAIN call \ {"phase"} |-> call[c]]
         IN  IF InRange(call.attempt, call.max_retries)
             THEN IF call.attempt >= 0
                  THEN /\ SetLog(L1)
                       /\ tasks' = << >>
                       /\ IF L1.raised
                          THEN /\ ret' = r @@ [kind |-> "raise", value |-> SinkError]
                               /\ call' = Idle
                               /\ UNCHANGED sleeps
                          ELSE /\ call' = [call EXCEPT !.phase = "sleeping"]
                               /\ sleeps' = sleeps + 1
                               /\ UNCHANGED ret
                  ELSE /\ call' = [call EXCEPT !.phase = "attempt"]
                       /\ tasks' = << NewTask(call.url) >>
                       /\ KeepLog
                       /\ UNCHANGED << ret, sleeps >>
             ELSE IF n > 0
                  THEN /\ SetLog(L2)
                       /\ ret' = r @@ IF L2.raised
                                      THEN [kind |-> "raise", value |-> SinkError]
                                      ELSE [kind |-> "return",
                                            value |-> Annotated(call.attempts[n].result,
                                                                call.max_retries)]
                       /\ call' = Idle
                       /\ UNCHANGED << tasks, sleeps >>
                  ELSE /\ ret' = r @@ [kind |-> "return",
                                       value |-> NoAttemptResult(call.url, method,
                                                                 call.max_retries)]
                       /\ call' = Idle
                       /\ KeepLog
                       /\ UNCHANGED << tasks, sleeps >>
    /\ UNCHANGED << loggerVars, session, session_end, log_doc, writes, client, method,
                    requests, invocations, finalized, directLogs >>

\* The head of one loop round, and the code after the loop.  A round after the
\* first logs the retry event and sleeps; the first calls test_endpoint at once.
\* After the last round the last result is annotated and the error logged.
RetryLoop ==
    /\ call.op = "retry"
    /\ call.phase = "loop"
    /\ \E f \in SinkChoices :
         LET n  == Len(call.attempts)
             L1 == log_event(TheLog, "api_retry",
                             [url |-> call.url, attempt |-> call.attempt + 1,
                              max_retries |-> call.max_retries,
                              message |-> << "Retrying", call.url, call.attempt + 1,
                                             call.max_retries + 1 >>], f)
             L2 == log_error(TheLog, << "All retry attempts failed for", call.url >>,
                             NoExc, f)
             r  == [c \in DOMAIN call \ {"phase"} |-> call[c]]
         IN  IF InRange(call.attempt, call.max_retries)
             THEN IF call.attempt > 0
                  THEN /\ SetLog(L1)
                       /\ tasks' = << >>
                       /\ IF L1.raised
                          THEN /\ ret' = r @@ [kind |-> "raise", value |-> SinkError]
                               /\ call' = Idle
                               /\ UNCHANGED sleeps
                          ELSE /\ call' = [call EXCEPT !.phase = "sleeping"]
                               /\ sleeps' = sleeps + 1
                               /\ UNCHANGED ret
                  ELSE /\ call' = [call EXCEPT !.phase = "attempt"]
                       /\ tasks' = << NewTask(call.url) >>
                       /\ KeepLog
                       /\ UNCHANGED << ret, sleeps >>
             ELSE IF n > 0
                  THEN /\ SetLog(L2)
                       /\ ret' = r @@ IF L2.raised
                                      THEN [kind |-> "raise", value |-> SinkError]
                                      ELSE [kind |-> "return",
                                            value |-> Annotated(call.attempts[n].result,
                                                                call.max_retries)]
                       /\ call' = Idle
                       /\ UNCHANGED << tasks, sleeps >>
                  ELSE /\ ret' = r @@ [kind |-> "return",
                                       value |-> NoAttemptResult(call.url, method,
                                                                 call.max_retries)]
                       /\ call' = Idle
                       /\ KeepLog
                       /\ UNCHANGED << tasks, sleeps >>
    /\ UNCHANGED << loggerVars, session, session_end, log_doc, writes, client, method,
                    requests, invocations, finalized, directLogs >>

\* asyncio.sleep(retry_delay) is over: test_endpoint is called
RetryWake ==
    /\ call.op = "retry"
    /\ call.phase = "sleeping"
    /\ call' = [call EXCEPT !.phase = "attempt"]
    /\ tasks' = << NewTask(call.url) >>
    /\ UNCHANGED << loggerVars, session, events, clock, sinkFaults, session_end, log_doc, writes, client,
                    method, ret, requests, sleeps, invocations, finalized, directLogs >>

\* the success event had it been logged for an accepted first attempt too
RetryAfterAttemptAlwaysLogs ==
    /\ call.op = "retry"
    /\ call.phase = "attempt"
    /\ Finished(tasks[1])
    /\ \E f \in SinkChoices :
         LET t  == tasks[1]
             L1 == log_success(TheLog, << "Retry successful for", call.url,
                                          call.attempt + 1 >>, f)
             r  == [c \in DOMAIN call \ {"phase"} |-> call[c]]
             r1 == [r EXCEPT !.attempts = Append(@, t)]
         IN  IF t.st = "raised"
             THEN /\ ret' = r1 @@ [kind |-> "raise", value |-> t.exc]
                  /\ call' = Idle
                  /\ KeepLog
             ELSE IF Accepted(t.result)
             THEN /\ call' = Idle
                  /\ IF call.attempt >= 0
                     THEN /\ SetLog(L1)
                          /\ ret' = r1 @@ IF L1.raised
                                          THEN [kind |-> "raise", value |-> SinkError]
                                          ELSE [kind |-> "return", value |-> t.result]
                     ELSE /\ ret' = r1 @@ [kind |-> "return", value |-> t.result]
                          /\ KeepLog
             ELSE /\ call' = [call EXCEPT !.attempt = @ + 1,
                                          !.attempts = Append(@, t),
                                          !.phase = "loop"]
                  /\ KeepLog
                  /\ UNCHANGED ret
    /\ UNCHANGED << loggerVars, session, session_end, log_doc, writes, client, method, tasks,
                    requests, sleeps, invocations, finalized, directLogs >>

\* test_endpoint has returned or raised: an exception leaves the retry call, an
\* accepted result is returned, any other result starts the next round
RetryAfterAttempt ==
    /\ call.op = "retry"
    /\ call.phase = "attempt"
    /\ Finished(tasks[1])
    /\ \E f \in SinkChoices :
         LET t  == tasks[1]
             L1 == log_success(TheLog, << "Retry successful for", call.url,
                                          call.attempt + 1 >>, f)
             r  == [c \in DOMAIN call \ {"phase"} |-> call[c]]
             r1 == [r EXCEPT !.attempts = Append(@, t)]
         IN  IF t.st = "raised"
             THEN /\ ret' = r1 @@ [kind |-> "raise", value |-> t.exc]
                  /\ call' = Idle
                  /\ KeepLog
             ELSE IF Accepted(t.result)
             THEN /\ call' = Idle
                  /\ IF call.attempt > 0
                     THEN /\ SetLog(L1)
                          /\ ret' = r1 @@ IF L1.raised
                                          THEN [kind |-> "raise", value |-> SinkError]
                                          ELSE [kind |-> "return", value |-> t.result]
                     ELSE /\ ret' = r1 @@ [kind |-> "return", value |-> t.result]
                          /\ KeepLog
             ELSE /\ call' = [call EXCEPT !.attempt = @ + 1,
                                          !.attempts = Append(@, t),
                                          !.phase = "loop"]
                  /\ KeepLog
                  /\ UNCHANGED ret
    /\ UNCHANGED << loggerVars, session, session_end, log_doc, writes, client, method, tasks,
                    requests, sleeps, invocations, finalized, directLogs >>

\* ---- the logger used directly
\* the events other components record: a phase event, a browser event whose
\* details may hold any object, a warning
DirectEvents ==
    { [type |-> "phase",   data |-> [name |-> "api_testing", message |-> "phase"]],
      [type |-> "browser", data |-> [action |-> "metrics", details |-> "plain"]],
      [type |-> "browser", data |-> [action |-> "metrics", details |-> "object"]],
      [type |-> "warning", data |-> [message |-> "warning", level |-> "WARNING"]] }

\* a call of log_event (or of an entry point built on it) from outside the tester
DirectLog(e) ==
    /\ call.op = "idle"
    /\ mode = "logger"
    /\ directLogs < MaxDirectLogs
    /\ directLogs' = directLogs + 1
    /\ \E f \in SinkChoices :
         LET L1 == log_event(TheLog, e.type, e.data, f)
         IN  /\ SetLog(L1)
             /\ ret' = [op |-> "log", mark |-> Len(events),
                        kind |-> IF L1.raised THEN "raise" ELSE "return"]
    /\ UNCHANGED << loggerVars, session, session_end, log_doc, writes, client, method, call,
                    tasks, requests, sleeps, invocations, finalized >>

\* the document _write_to_file dumps
SessionDocument(end) ==
    [session_start |-> 0, session_end |-> end, events |-> events]

\* finalize_session: stamp session_end, write the file when one is configured.
\* written: open() and json.dump() succeeded (a failure is caught and reported).
\* A session that drives the tester calls it once, after the client was closed
\* (the finally block of cli.py); a logger used alone is finalized at any time.
FinalizeSession ==
    /\ call.op = "idle"
    /\ IF mode = "logger" THEN finalized < MaxFinalize
                          ELSE finalized = 0 /\ client = "closed"
    /\ finalized' = finalized + 1
    /\ session_end' = clock
    /\ clock' = clock + 1
    /\ \E written \in BOOLEAN :
         IF log_file /\ written
         THEN /\ log_doc' = SessionDocument(clock)
              /\ writes' = writes + 1
         ELSE UNCHANGED << log_doc, writes >>
    /\ UNCHANGED << loggerVars, session, events, sinkFaults, client, method, call, tasks, ret, requests,
                    sleeps, invocations, directLogs >>

\* ---------------------------------------------------------------- specification
InitCommon ==
    /\ verbose \in BOOLEAN
    /\ mode \in {"logger", "single", "batch", "retry"}
    \* cli.py always names a log file (line 74); a logger used alone may have none
    /\ log_file \in IF mode = "logger" THEN BOOLEAN ELSE {TRUE}
    /\ events = << >>
    /\ clock = 1
    /\ session_end = NULL
    /\ log_doc = NULL
    /\ writes = 0
    /\ client = "none"
    /\ method \in MethodInputs
    /\ call = Idle
    /\ tasks = << >>
    /\ ret = NoRet
    /\ requests = 0
    /\ sleeps = 0
    /\ invocations = 0
    /\ finalized = 0
    /\ directLogs = 0
    /\ sinkFaults = 0
    /\ session = "new"

\* a fresh process: StructuredLogger.__init__ installs the StreamHandler
Init == InitCommon /\ handlers = "stream"

\* the "play_curl" logger already had handlers when the logger was made
InitCustomSink ==
    /\ InitCommon
    /\ handlers = "custom"
    /\ method \in {<<"p","O","s","t">>, <<"g","e">>}

Next ==
    \/ Enter
    \/ Exit
    \/ \E u \in Urls : StartSingle(u)
    \/ \E i \in 1..Len(tasks) : TaskStart(i)
    \/ \E i \in 1..Len(tasks) : TaskComplete(i)
    \/ ReturnSingle
    \/ \E e \in EndpointLists : StartBatch(e)
    \/ JoinBatch
    \/ \E u \in Urls, R \in -1..MaxInvocations : StartRetry(u, R)
    \/ RetryLoop
    \/ RetryWake
    \/ RetryAfterAttempt
    \/ \E e \in DirectEvents : DirectLog(e)
    \/ FinalizeSession
    \/ Interrupt

Spec == Init /\ [][Next]_vars

SpecCustomSink == InitCustomSink /\ [][Next]_vars

\* batch sessions alone, with custom console handlers
InitBatchCustomSink == InitCustomSink /\ mode = "batch"

NextBatch ==
    \/ Enter
    \/ Exit
    \/ \E e \in EndpointLists : StartBatch(e)
    \/ \E i \in 1..Len(tasks) : TaskStart(i)
    \/ \E i \in 1..Len(tasks) : TaskComplete(i)
    \/ JoinBatch

SpecBatchCustomSink == InitBatchCustomSink /\ [][NextBatch]_vars

\* ================================================================ claims
\* the events appended since the last ended call began
CallEvents == SubSeq(events, ret.mark + 1, Len(events))

CountType(evs, event_type) ==
    Cardinality({i \in DOMAIN evs : evs[i].type = event_type})

\* an attempt the retry controller must not accept: status >= 500 or success=false
NotAccepted(result) == (~ result.success) \/ result.status_code[1] >= 500

BatchReturned == ret.op = "batch" /\ ret.kind = "return"
RetryReturned == ret.op = "retry" /\ ret.kind = "return"

\* C1: whatever the order in which the concurrent requests complete, the list
\* test_multiple_endpoints returns is as long as its input and its i-th
\* element has the i-th input url.
C1_BatchKeepsInputOrder ==
    BatchReturned =>
        /\ Len(ret.value) = Len(ret.endpoints)
        /\ \A i \in 1..Len(ret.endpoints) : ret.value[i].url = ret.endpoints[i]

\* a batch of two different urls has returned, and the second url's request
\* completed (logged its api event) before the first url's
C1_Witness ==
    /\ BatchReturned
    /\ Len(ret.endpoints) = 2
    /\ ret.endpoints[1] # ret.endpoints[2]
    /\ \E p, q \in DOMAIN CallEvents :
         /\ p < q
         /\ CallEvents[p].type = "api" /\ CallEvents[p].data.url = ret.endpoints[2]
         /\ CallEvents[q].type = "api" /\ CallEvents[q].data.url = ret.endpoints[1]

\* C2: when every attempt is not accepted, a retry call with R >= 0 makes
\* exactly R+1 attempts, logs exactly R api_retry events, returns the last
\* attempt's result with retry_attempts = R+1, and logs one 'All retry attempts
\* failed' error event, after the last attempt; no call makes more than R+1 attempts.
C2_RetryExhausts ==
    /\ (call.op = "retry" /\ call.max_retries >= 0) =>
           Len(call.attempts) + (IF call.phase = "attempt" THEN 1 ELSE 0)
               <= call.max_retries + 1
    /\ (ret.op = "retry" /\ ret.max_retries >= 0) =>
           Len(ret.attempts) <= ret.max_retries + 1
    /\ ( /\ RetryReturned
         /\ ret.max_retries >= 0
         /\ \A i \in DOMAIN ret.attempts : NotAccepted(ret.attempts[i].result) ) =>
           LET R    == ret.max_retries
               last == ret.attempts[Len(ret.attempts)].result
               fail == [message |-> << "All retry attempts failed for", ret.url >>,
                        level |-> "ERROR"]
           IN  /\ Len(ret.attempts) = R + 1
               /\ CountType(CallEvents, "api_retry") = R
               /\ ret.value = last @@ [retry_attempts |-> R + 1]
               /\ CallEvents[Len(CallEvents)].type = "error"
               /\ CallEvents[Len(CallEvents)].data = fail
               /\ Cardinality({i \in DOMAIN CallEvents : CallEvents[i].data = fail}) = 1

\* a retry call with R = 2 has returned after three attempts that all got a 500
C2_Witness ==
    /\ RetryReturned
    /\ ret.max_retries = 2
    /\ Len(ret.attempts) = 3
    /\ \A i \in 1..3 : ret.attempts[i].result.status_code = Some(500)

\* C3: a retry call stops at the first attempt whose result has success=true
\* and a status below 500 and returns that result; after any other attempt it
\* makes a further one while attempts remain; a 404 on the first attempt gives
\* one attempt, no retry event and a result with success=true, status_code=404.
C3_RetryStopsWhenAccepted ==
    /\ call.op = "retry" =>
           \A i \in DOMAIN call.attempts : NotAccepted(call.attempts[i].result)
    /\ RetryReturned /\ ret.max_retries >= 0 =>
           LET n    == Len(ret.attempts)
               last == ret.attempts[n].result
           IN  /\ \A i \in 1..(n - 1) : NotAccepted(ret.attempts[i].result)
               /\ ~ NotAccepted(last) => ret.value = last
               /\ NotAccepted(last) => n = ret.max_retries + 1
               /\ ret.attempts[1].outcome = [kind |-> "response", status |-> 404,
                                             body |-> "badjson"] =>
                      /\ n = 1
                      /\ CountType(CallEvents, "api_retry") = 0
                      /\ ret.value.success
                      /\ ret.value.status_code = Some(404)
                      /\ requests = ret.req0 + 1

\* a retry call that had retries left has returned after one attempt, a 404
C3_Witness ==
    /\ RetryReturned
    /\ ret.max_retries = 2
    /\ Len(ret.attempts) = 1
    /\ ret.value.status_code = Some(404)

\* one direct test_endpoint call made where the ended retry call began, given
\* what the request of its first attempt ended in
DirectCall ==
    EndpointBody([events |-> SubSeq(events, 1, ret.mark),
                  clock  |-> CallEvents[1].timestamp,
                  raised |-> FALSE, faults |-> 0],
                 ret.url, Upper(method), ret.attempts[1].outcome, {})

AllRetriesFailed ==
    [message |-> << "All retry attempts failed for", ret.url >>, level |-> "ERROR"]

RetryZeroEnded == ret.op = "retry" /\ ret.max_retries = 0

\* C4: with max_retries = 0 the retry call makes one attempt, no sleep and no
\* retry event, and raises what the attempt raises.  When the attempt is
\* accepted it returns the direct call's result and appends the direct call's
\* events; when it is not accepted (5xx, timeout, connection failure, other
\* fault) it returns the direct call's result with the extra field
\* retry_attempts = 1 and appends, after the direct call's events, one extra
\* error event 'All retry attempts failed'.
C4_RetryZeroIsDirectCallPlusExhaustion ==
    RetryZeroEnded =>
        /\ Len(ret.attempts) = 1
        /\ sleeps = ret.sleep0
        /\ CountType(CallEvents, "api_retry") = 0
        /\ ret.kind = "raise" =>
               /\ ret.value = ret.attempts[1].exc
               /\ CallEvents = << >>
        /\ ret.kind = "return" =>
               /\ DirectCall.result = ret.attempts[1].result
               /\ IF ~ NotAccepted(DirectCall.result)
                  THEN /\ ret.value = DirectCall.result
                       /\ events = DirectCall.log.events
                  ELSE /\ ret.value = DirectCall.result @@ [retry_attempts |-> 1]
                       /\ events = Append(DirectCall.log.events,
                                          [timestamp |-> DirectCall.log.clock,
                                           type |-> "error",
                                           data |-> AllRetriesFailed])

\* C4 as stated: whatever the response, the retry call with max_retries = 0
\* returns the direct call's result and appends the direct call's events
C4_AsStated ==
    RetryZeroEnded /\ ret.kind = "return" =>
        /\ ret.value = DirectCall.result
        /\ events = DirectCall.log.events

\* a retry call with max_retries = 0 has returned after an attempt that timed out
C4_Witness ==
    /\ RetryZeroEnded
    /\ ret.kind = "return"
    /\ ret.attempts[1].outcome = [kind |-> "timeout"]
    /\ ret.value.retry_attempts = 1

\* success = true implies a status code and no error
ResultInvariant(result) ==
    result.success => (result.status_code # None /\ result.error = None)

\* C5: every result returned by test_endpoint, test_multiple_endpoints or
\* test_endpoint_with_retry with success = true has a status code and no
\* error, also when a console call raised after the response was received.
C5_SuccessHasStatusAndNoError ==
    /\ \A i \in DOMAIN tasks :
         tasks[i].st = "returned" => ResultInvariant(tasks[i].result)
    /\ (ret.op \in {"single", "retry"} /\ ret.kind = "return") =>
         ResultInvariant(ret.value)
    /\ BatchReturned =>
         \A i \in DOMAIN ret.value : ResultInvariant(ret.value[i])

FaultKinds == {"timeout", "connect", "other", "closed"}

\* the error string's prefix the fault of each kind is reported with
ErrorPrefix(kind) ==
    CASE kind = "timeout" -> "Request timeout after"
      [] kind = "connect" -> "Connection error:"
      [] OTHER            -> "Unexpected error:"

\* C6: a test_endpoint call with a valid method and an acquired client whose
\* request ends in a timeout, a connection failure or another fault returns
\* (never raises) a result with success=false, no status code, the error
\* string with the fault's prefix and a non-null elapsed time.
C6_RequestFaultsAreReturned ==
    /\ \A i \in DOMAIN tasks :
         tasks[i].outcome.kind \in FaultKinds =>
             /\ tasks[i].st = "returned"
             /\ tasks[i].result.success = FALSE
             /\ tasks[i].result.status_code = None
             /\ tasks[i].result.error # None
             /\ tasks[i].result.error[1] = ErrorPrefix(tasks[i].outcome.kind)
             /\ tasks[i].result.response_time_ms # NULL
    /\ (ret.op = "single" /\ tasks[1].outcome.kind \in FaultKinds) =>
             /\ ret.kind = "return"
             /\ ret.value = tasks[1].result

\* a direct call whose request timed out has returned
C6_Witness ==
    /\ ret.op = "single"
    /\ ret.kind = "return"
    /\ tasks[1].outcome = [kind |-> "timeout"]
    /\ requests = ret.req0 + 1

\* the events test_multiple_endpoints itself mirrors to the console
BatchLevelEvent(e) ==
    \/ e.type \in {"api_test_batch", "api_test_batch_complete"}
    \/ /\ e.type = "error"
       /\ Len(e.data.message) = 2
       /\ e.data.message[1] = "Task failed for"

\* C7: a fault raised out of one endpoint's test_endpoint call does not abort
\* or alter the sibling calls of the batch: every call runs to its end, a
\* returned call's slot holds its own result, and a faulting slot holds the
\* synthesized result with the slot's url, success=false, the error
\* 'Task failed: {detail}' and null status_code and response_time_ms; the
\* batch itself raises only what its own logging raises.
C7_BatchIsolatesFaults ==
    /\ call.op = "batch" => Len(tasks) = Len(call.endpoints)
    /\ (ret.op = "batch" /\ ret.kind = "raise") =>
           /\ ret.value = SinkError
           /\ BatchLevelEvent(events[Len(events)])
    /\ BatchReturned =>
           \A i \in DOMAIN ret.value :
               /\ Finished(tasks[i])
               /\ tasks[i].st = "returned" =>
                      /\ ret.value[i] = tasks[i].result
                      /\ tasks[i].outcome.kind = "response" =>
                             ret.value[i].status_code = Some(tasks[i].outcome.status)
               /\ tasks[i].st = "raised" =>
                      ret.value[i] =
                          [url |-> ret.endpoints[i], method |-> method,
                           success |-> FALSE,
                           error |-> << "Task failed: ", tasks[i].exc.msg >>,
                           status_code |-> None, response_time_ms |-> NULL]

\* a batch of two has returned: the first call raised out of its except block,
\* the second returned the 200 it received
C7_Witness ==
    /\ BatchReturned
    /\ Len(ret.value) = 2
    /\ tasks[1].st = "raised"
    /\ tasks[1].exc = SinkError
    /\ tasks[2].st = "returned"
    /\ ret.value[2].status_code = Some(200)
    /\ ret.value[2].error = None

\* the seven method names, and the lower-case letter of each of their letters
MethodNames ==
    { <<"G","E","T">>, <<"P","O","S","T">>, <<"P","U","T">>,
      <<"D","E","L","E","T","E">>, <<"P","A","T","C","H">>,
      <<"H","E","A","D">>, <<"O","P","T","I","O","N","S">> }
LowerOf ==
    { <<"g","G">>, <<"e","E">>, <<"t","T">>, <<"p","P">>, <<"o","O">>,
      <<"s","S">>, <<"u","U">>, <<"d","D">>, <<"l","L">>, <<"a","A">>,
      <<"c","C">>, <<"h","H">>, <<"i","I">>, <<"n","N">> }

\* the method string, upper-cased, is one of the seven names
NamesAMethod(m) ==
    \E v \in MethodNames :
        /\ Len(v) = Len(m)
        /\ \A i \in 1..Len(v) : m[i] = v[i] \/ << m[i], v[i] >> \in LowerOf

InvalidMethodFault(t) == t.st = "raised" /\ t.exc.type = "ValueError"

\* the running call has appended nothing but its own start event, and no
\* request has been issued since it began
NothingDoneYet ==
    /\ requests = call.req0
    /\ Len(events) = call.mark + (IF call.op = "batch" THEN 1 ELSE 0)

\* C8: on a tester whose client has been acquired, test_endpoint raises the
\* invalid-method fault to its immediate caller if and only if the upper-cased
\* method string is not one of GET, POST, PUT, DELETE, PATCH, HEAD, OPTIONS;
\* when it is raised, no HTTP request has been issued and no event appended.
C8_InvalidMethodWithClient ==
    call.op # "idle" =>
        \A i \in DOMAIN tasks :
            /\ (tasks[i].st # "new" /\ client # "none") =>
                   (InvalidMethodFault(tasks[i]) <=> ~ NamesAMethod(method))
            /\ InvalidMethodFault(tasks[i]) => NothingDoneYet

\* C8 as stated: for every method string and every tester, acquired or not
C8_AsStated ==
    call.op # "idle" =>
        \A i \in DOMAIN tasks :
            /\ tasks[i].st # "new" =>
                   (InvalidMethodFault(tasks[i]) <=> ~ NamesAMethod(method))
            /\ InvalidMethodFault(tasks[i]) => NothingDoneYet

\* a direct call with an open client and the method 'get ' has raised the
\* invalid-method fault
C8_Witness ==
    /\ call.op = "single"
    /\ client = "open"
    /\ method = <<"g","e","t"," ">>
    /\ InvalidMethodFault(tasks[1])
    /\ requests = call.req0

\* the summary event reports s of n as the percentage to the nearest tenth
NearestTenth(rate, s, n) ==
    LET tenths == 10 * rate[1] + rate[3]
        d      == tenths * n - 1000 * s
    IN  /\ rate[2] = "." /\ rate[4] = "%"
        /\ 2 * d <= n /\ 2 * (0 - d) <= n

\* the batch of the example: four requests answered 200, 404, 500, 201
ExampleSummary ==
    LET eps == << "u1", "u2", "u3", "u4" >>
        sts == << 200, 404, 500, 201 >>
        M   == << "G", "E", "T" >>
        L0  == [events |-> << >>, clock |-> 1, raised |-> FALSE, faults |-> 0]
        ts  == [i \in 1..4 |->
                  LET o == [kind |-> "response", status |-> sts[i], body |-> "json"]
                  IN  TaskAfter(NewTask(eps[i]), o, EndpointBody(L0, eps[i], M, o, {}))]
        t   == BatchTail(L0, ts, eps, M, 0)
    IN  t.log.events[Len(t.log.events)]

\* C9: the api_test_batch_complete event of a batch has total_endpoints equal
\* to the input length, successful equal to the number of returned results
\* with success=true and a status below 400, and failed equal to the rest;
\* statuses 200, 404, 500, 201 give successful = 2 and the rate '50.0%'.
C9_BatchSummaryCounts ==
    /\ (BatchReturned /\ Len(ret.endpoints) > 0) =>
           LET e == events[Len(events)]
               n == Len(ret.endpoints)
               s == Cardinality({i \in DOMAIN ret.value :
                                   /\ ret.value[i].success
                                   /\ ret.value[i].status_code[1] < 400})
           IN  /\ e.type = "api_test_batch_complete"
               /\ e.data.total_endpoints = n
               /\ e.data.successful = s
               /\ e.data.failed = n - s
               /\ NearestTenth(e.data.success_rate, s, n)
    /\ ExampleSummary.type = "api_test_batch_complete"
    /\ ExampleSummary.data.total_endpoints = 4
    /\ ExampleSummary.data.successful = 2
    /\ ExampleSummary.data.failed = 2
    /\ ExampleSummary.data.success_rate = << 50, ".", 0, "%" >>

\* a batch of two has returned, one request answered 200 and one 404
C9_Witness ==
    /\ BatchReturned
    /\ Len(ret.value) = 2
    /\ ret.value[1].status_code = Some(404)
    /\ ret.value[2].status_code = Some(200)
    /\ events[Len(events)].data.successful = 1

IsPrefix(s, t) == Len(s) <= Len(t) /\ SubSeq(t, 1, Len(s)) = s

\* C10: the event log is append-only: every step of logging, requests,
\* batches, retries and finalize leaves the events it found as a prefix of the
\* events it leaves, so no event is removed, reordered or changed.
C10_EventsAppendOnly == [][IsPrefix(events, events')]_vars

\* an event has been appended after a finalize_session that found events
C10_Witness ==
    /\ finalized > 0
    /\ Len(events) > 1
    /\ events[1].timestamp < session_end
    /\ events[Len(events)].timestamp > session_end

\* C11: over any sequence of log and finalize_session calls, session_end is
\* absent before the first finalize and never changes after it, and the
\* session document is written at most once: a second finalize_session call
\* neither re-stamps session_end nor writes the document again.
C11_FinalizeOnce ==
    [][ /\ finalized = 0 => session_end = NULL
        /\ finalized > 0 => session_end' = session_end
        /\ writes' <= 1 ]_vars

\* C12: log_event, called directly or through an entry point built on it,
\* appends exactly one event and returns: a fault while mirroring the event
\* to the console does not reach the caller.
C12_LogNeverFails ==
    ret.op = "log" =>
        /\ Len(events) = ret.mark + 1
        /\ ret.kind = "return"

\* C13: the client acquired when the session is entered is closed on every
\* way out of the session (normal completion, a fault raised inside the body
\* such as an invalid method in retry mode, a user interrupt), and no request
\* is issued through a tester whose client has not been acquired.
C13_ClientClosedOnEveryExit ==
    /\ session \in {"exited", "interrupted"} => client = "closed"
    /\ session = "new" => (client = "none" /\ requests = 0)
    /\ \A i \in DOMAIN tasks : tasks[i].st = "awaiting" => client = "open"

\* the session was left after a retry call raised the invalid-method fault
C13_WitnessFault ==
    /\ session = "exited"
    /\ ret.op = "retry"
    /\ ret.kind = "raise"
    /\ ret.value.type = "ValueError"

\* the session was left by an interrupt while a request was in flight
C13_Witness ==
    /\ session = "interrupted"
    /\ requests > 0
    /\ \E i \in DOMAIN tasks : tasks[i].st = "cancelled"

\* the events a step appends
Appended == SubSeq(events', Len(events) + 1, Len(events'))

\* the step in which the i-th test_endpoint call ends
AttemptEnds(i) ==
    /\ i \in DOMAIN tasks
    /\ tasks[i].st \in {"new", "awaiting"}
    /\ tasks'[i].st \in {"returned", "raised"}

\* the type of the classification event of a status, "" when it has none
ClassOf(status) ==
    IF 200 <= status /\ status < 300 THEN "success"
    ELSE IF 400 <= status /\ status < 500 THEN "warning"
    ELSE IF status >= 500 THEN "error"
    ELSE ""

\* C14: a test_endpoint attempt that receives a response appends exactly one
\* api event with that status code and a null error, followed by exactly one
\* classification event: success for [200,300), warning for [400,500), error
\* for 500 and above, and none for any other status.
C14_ResponseEvents ==
    [][ \A i \in DOMAIN tasks :
          (AttemptEnds(i) /\ tasks'[i].outcome.kind = "response") =>
              LET status == tasks'[i].outcome.status
                  n      == IF ClassOf(status) = "" THEN 1 ELSE 2
              IN  /\ IsPrefix(events, events')
                  /\ Len(Appended) = n
                  /\ Appended[1].type = "api"
                  /\ Appended[1].data.url = tasks[i].url
                  /\ Appended[1].data.status_code = Some(status)
                  /\ Appended[1].data.error = None
                  /\ n = 2 => Appended[2].type = ClassOf(status) ]_vars

\* attempts have ended with a 301 (no classification event) and with a 404
\* (a warning event right after its api event)
C14_Witness ==
    /\ Len(tasks) = 2
    /\ tasks[1].st = "returned" /\ tasks[1].outcome.kind = "response"
    /\ tasks[1].outcome.status = 301
    /\ tasks[2].st = "returned" /\ tasks[2].outcome.kind = "response"
    /\ tasks[2].outcome.status = 404
    /\ events[Len(events)].type = "api"
    /\ events[Len(events)].data.status_code = Some(301)
    /\ events[Len(events) - 1].type = "warning"

\* C15: a test_endpoint attempt that ends in a timeout, a connection failure
\* or another unexpected fault appends exactly two events: the api event with
\* a null status code and the error string, then one error event.
C15_FaultEvents ==
    [][ \A i \in DOMAIN tasks :
          (AttemptEnds(i) /\ tasks'[i].outcome.kind \in FaultKinds) =>
              /\ IsPrefix(events, events')
              /\ Len(Appended) = 2
              /\ Appended[1].type = "api"
              /\ Appended[1].data.url = tasks[i].url
              /\ Appended[1].data.status_code = None
              /\ Appended[1].data.error # None
              /\ Appended[1].data.error[1] = ErrorPrefix(tasks'[i].outcome.kind)
              /\ Appended[2].type = "error" ]_vars

\* an attempt whose request failed to connect has ended, its api event and
\* its error event being the last two events
C15_Witness ==
    /\ \E i \in DOMAIN tasks :
         tasks[i].st = "returned" /\ tasks[i].outcome = [kind |-> "connect"]
    /\ Len(events) >= 2
    /\ events[Len(events)].type = "error"
    /\ events[Len(events) - 1].type = "api"
    /\ events[Len(events) - 1].data.error = << "Connection error:", "connection refused" >>

\* C16: a call of test_multiple_endpoints with a non-empty input that runs to
\* its return appends exactly one api_test_batch event, before any event of
\* the batch's requests, and exactly one api_test_batch_complete event, after
\* the last event of every request; a call with an empty input returns the
\* empty list and appends no event.
C16_BatchStartAndCompleteEvents ==
    /\ call.op = "batch" =>
           /\ events[call.mark + 1].type = "api_test_batch"
           /\ CountType(SubSeq(events, call.mark + 1, Len(events)), "api_test_batch") = 1
           /\ CountType(SubSeq(events, call.mark + 1, Len(events)),
                        "api_test_batch_complete") = 0
    /\ (BatchReturned /\ Len(ret.endpoints) > 0) =>
           /\ CountType(CallEvents, "api_test_batch") = 1
           /\ CountType(CallEvents, "api_test_batch_complete") = 1
           /\ CallEvents[1].type = "api_test_batch"
           /\ CallEvents[1].data.endpoint_count = Len(ret.endpoints)
           /\ CallEvents[Len(CallEvents)].type = "api_test_batch_complete"
    /\ (BatchReturned /\ Len(ret.endpoints) = 0) =>
           /\ ret.value = << >>
           /\ CallEvents = << >>

\* C16 as stated: for an input of any length, the empty one too
C16_AsStated ==
    BatchReturned =>
        /\ CountType(CallEvents, "api_test_batch") = 1
        /\ CountType(CallEvents, "api_test_batch_complete") = 1
        /\ CallEvents[1].type = "api_test_batch"
        /\ CallEvents[Len(CallEvents)].type = "api_test_batch_complete"

\* a batch of two has returned with the events of both requests between its
\* start event and its complete event
C16_Witness ==
    /\ BatchReturned
    /\ Len(ret.endpoints) = 2
    /\ CountType(CallEvents, "api") = 2
    /\ CallEvents[1].type = "api_test_batch"
    /\ CallEvents[Len(CallEvents)].type = "api_test_batch_complete"

\* the events appended since the running call began
RunEvents == SubSeq(events, call.mark + 1, Len(events))

\* C17: in test_endpoint_with_retry every attempt but the first is preceded,
\* after the attempt before it has returned, by exactly one api_retry event
\* and exactly one sleep; there is no retry event and no sleep before the
\* first attempt or after the last one.
C17_RetryEventAndSleepBetweenAttempts ==
    /\ (call.op = "retry" /\ call.phase = "sleeping") =>
           /\ events[Len(events)].type = "api_retry"
           /\ events[Len(events)].data.attempt = Len(call.attempts) + 1
           /\ CountType(RunEvents, "api_retry") = Len(call.attempts)
           /\ sleeps - call.sleep0 = Len(call.attempts)
    /\ (call.op = "retry" /\ call.phase = "attempt") =>
           /\ CountType(RunEvents, "api_retry") = Len(call.attempts)
           /\ sleeps - call.sleep0 = Len(call.attempts)
           /\ (tasks[1].st = "new" /\ Len(call.attempts) > 0) =>
                  events[Len(events)].type = "api_retry"
    /\ ret.op = "retry" =>
           LET n == Len(ret.attempts)
               k == IF n > 0 THEN n - 1 ELSE 0
           IN  /\ CountType(CallEvents, "api_retry") = k
               /\ sleeps - ret.sleep0 = k

\* a retry call has ended after three attempts, two retry events and two sleeps
C17_Witness ==
    /\ ret.op = "retry"
    /\ Len(ret.attempts) = 3
    /\ CountType(CallEvents, "api_retry") = 2
    /\ sleeps - ret.sleep0 = 2

RetrySuccessful(e) ==
    /\ e.type = "success"
    /\ Len(e.data.message) = 3
    /\ e.data.message[1] = "Retry successful for"

\* C18: test_endpoint_with_retry logs a 'Retry successful' success event if
\* and only if the call ends with an attempt after the first that is accepted;
\* it logs none when the first attempt is accepted, when all attempts are
\* exhausted, or while the call is running.
C18_RetrySuccessfulEvent ==
    /\ call.op = "retry" =>
           \A i \in DOMAIN RunEvents : ~ RetrySuccessful(RunEvents[i])
    /\ ret.op = "retry" =>
           LET n    == Len(ret.attempts)
               hits == Cardinality({i \in DOMAIN CallEvents :
                                      RetrySuccessful(CallEvents[i])})
           IN  hits = IF /\ ret.kind = "return"
                         /\ n > 1
                         /\ ~ NotAccepted(ret.attempts[n].result)
                      THEN 1 ELSE 0

\* a retry call has returned the 404 of its second attempt, after a 500, and
\* its last event is the 'Retry successful' event
C18_Witness ==
    /\ RetryReturned
    /\ Len(ret.attempts) = 2
    /\ ret.attempts[1].result.status_code = Some(500)
    /\ ret.value.status_code = Some(404)
    /\ RetrySuccessful(events[Len(events)])

\* the event right after the api event at position i is the same request's
\* event of the given type
FollowedBy(i, event_type) ==
    /\ i < Len(events)
    /\ events[i + 1].type = event_type
    /\ Len(events[i + 1].data.message) >= 4
    /\ events[i + 1].data.message[1] = events[i].data.method
    /\ events[i + 1].data.message[2] = events[i].data.url

\* the number of events the calls ts[1..i] of a batch and its loop append
RECURSIVE EventsOwed(_, _)
EventsOwed(ts, i) ==
    IF i = 0 THEN 0
    ELSE EventsOwed(ts, i - 1) +
         ( IF ts[i].st = "raised" THEN 1
           ELSE IF ts[i].outcome.kind = "response"
                   /\ ClassOf(ts[i].outcome.status) = "" THEN 1
           ELSE 2 )

\* C19: under every interleaving of the requests of a batch no event is lost
\* and the events of a request stay together: the log gains exactly the
\* events of every request, and a request's api event is immediately followed
\* by that request's classification or error event.
C19_RequestEventsStayTogether ==
    /\ \A i \in DOMAIN events :
         events[i].type = "api" =>
             IF events[i].data.status_code = None
             THEN FollowedBy(i, "error")
             ELSE ClassOf(events[i].data.status_code[1]) # "" =>
                      FollowedBy(i, ClassOf(events[i].data.status_code[1]))
    /\ (BatchReturned /\ Len(ret.endpoints) > 0) =>
         /\ Len(CallEvents) = 2 + EventsOwed(tasks, Len(tasks))
         /\ \A j \in DOMAIN tasks :
              tasks[j].st = "returned" =>
                  \E i \in DOMAIN CallEvents :
                      /\ CallEvents[i].type = "api"
                      /\ CallEvents[i].data.url = tasks[j].url
                      /\ CallEvents[i].data.status_code = tasks[j].result.status_code

\* a batch of two urls has returned whose requests were in flight together:
\* the second ended first, in a 500, the first then timed out
C19_Witness ==
    /\ BatchReturned
    /\ Len(ret.endpoints) = 2
    /\ ret.endpoints[1] # ret.endpoints[2]
    /\ tasks[1].outcome = [kind |-> "timeout"]
    /\ tasks[2].outcome.kind = "response" /\ tasks[2].outcome.status = 500
    /\ Len(CallEvents) = 6
    /\ CallEvents[2].data.url = ret.endpoints[2]
    /\ CallEvents[4].data.url = ret.endpoints[1]

====
